---- MODULE Spec2Model ----
(***************************************************************************)
(* The LACES-GENESIS OMNI backend (src/main.py): lock manager, connection  *)
(* manager and edit endpoint; and the ticket engine of the maintenance     *)
(* agent (src/agent.py).                                                   *)
(*                                                                         *)
(* The primary lock record lives in Redis under lock:twin:<twin_id> (one   *)
(* record per twin, written with SET NX EX), the durable shadow in the SQL *)
(* table edit_locks.  A call is suspended at each await of the code (a     *)
(* Redis command, a SQL statement) and other calls, the clock and the      *)
(* reaper run in between; a step of the model is the code from one await   *)
(* to the next.                                                            *)
(*                                                                         *)
(* Time is discrete: one tick stands for 100 s, so the constant 300 of     *)
(* heartbeat_lock is 3 ticks.                                              *)
(***************************************************************************)
EXTENDS Integers, FiniteSets, Sequences, TLC

\* ------------------------------------------------------------------ bounds

\* Lock ids handed out by uuid4() are modelled as 1, 2, ... in order of issue;
\* Spec issues at most MaxLocks of them, SpecSerial at most MaxLocksSerial.
MaxLocks == 2
MaxLocksSerial == 3

\* The clock runs from 0 to MaxTime ticks.
MaxTime == 2

\* Concurrent callers (each is a user with one active session).
Procs == {"u1", "u2"}

\* Digital twins.
Twins == {"t1"}

\* Component paths of a twin and the non-empty component lists a caller may request.
Paths == {"chassis.bolt1", "wheel.axle"}
ComponentLists == (SUBSET Paths) \ {{}}

LockTypes == {"exclusive", "shared"}

\* Values of the timeout parameter of acquire_lock, in ticks.
Timeouts == {1}

\* WebSocket connections, each opened once, and the session_id in the URL of
\* each: w2 and w3 come with the same session.
Conns == {"w1", "w2", "w3"}
Sessions == {"s1", "s2"}
session_of == ("w1" :> "s1") @@ ("w2" :> "s2") @@ ("w3" :> "s2")

\* The user of each session (the user_id of its row in user_sessions).
user_of == ("s1" :> "u1") @@ ("s2" :> "u2")

\* The twins sessions subscribe to and edits are posted on.
WsTwins == {"t1", "t2"}

\* SpecConn inserts at most MaxOps edit operations and has at most MaxCasts
\* broadcasts under way at a time.
MaxOps == 1
MaxCasts == 2

\* SpecEdits inserts at most MaxOpsEdits edit operations, each with one of these
\* values of vector_clock (None, or a dict from user to counter).
MaxOpsEdits == 3
VectorClocks == {[kind |-> "None"], [u1 |-> 1], [u1 |-> 2], [u1 |-> 1, u2 |-> 1]}

\* SpecVersions creates at most MaxTwins twins and MaxVersions versions in all.
MaxTwins == 2
MaxVersions == 4

\* Scores are kept in hundredths of a point: 100.00 is ScoreScale * 100.
ScoreScale == 100

\* What the telemetry of a node averages to (vibration in hundredths of a g,
\* temperature in degrees C, tool wear in percent), and the age in days of its
\* last_maintenance_date.
Vibrations == {0, 40, 80, 100}
Temperatures == {0, 50, 95, 120}
ToolWears == {0, 50, 80, 100}
MaintenanceAges == {0, 180, 360}

\* SpecSession: the one user who acquires locks there, and how many.
Holder == "u1"
MaxLocksSession == 1

\* Concurrent callers of create_maintenance_ticket, and what they call it with.
Workers == {"a1", "a2"}
Nodes == {"n1"}
Titles == {"Predicted failure imminent", "Anomalous behavior detected"}
Severities == {"critical", "medium"}
AllSeverities == {"critical", "high", "medium", "low"}

\* SpecTickets inserts at most MaxTickets tickets; the agent's clock runs from 0
\* to MaxAgentTime, in units of 12 hours.
MaxTickets == 3
MaxAgentTime == 3
HoursPerTick == 12

\* SpecLoops inserts at most MaxTicketsLoops tickets.
MaxTicketsLoops == 1

\* ------------------------------------------------------- program constants

\* heartbeat_lock: await self.redis.expire(lock_key, 300)
HeartbeatTTL == 3

\* Grace of release_stale_locks() (heartbeat_at + grace < now), in ticks.
Grace == 1

\* create_maintenance_ticket: created_at > NOW() - INTERVAL '24 hours', in units
\* of 12 hours.
DedupWindow == 2

\* AgentConfig.VIBRATION_CRITICAL (0.8 g, in hundredths of a g) and
\* TEMPERATURE_CRITICAL (degrees C).
VIBRATION_CRITICAL == 80
TEMPERATURE_CRITICAL == 95

\* The time constant of the maintenance freshness score, in days.
MaintenanceDays == 180

\* last_maintenance_days of a node without telemetry.
UnknownMaintenanceDays == 9999

\* The value a row of twin_versions takes in is_latest when its INSERT does not
\* name the column.  (GET /twins joins on is_latest = TRUE and lists every twin.)
IsLatestDefault == TRUE

\* alert_dispatcher_loop: created_at > NOW() - INTERVAL '1 hour'.
AlertWindowHours == 1

\* SQL NULL in a timestamp column.
Null == -1

\* ------------------------------------------------------------------- state

VARIABLES
    now,     \* wall clock, in ticks
    kv,      \* Redis: twin -> the record under lock:twin:<twin>, or Nil
    sql,     \* edit_locks: lock_id -> row
    nextId,  \* the next lock id uuid4() hands out
    pc,      \* per caller: the await its call is suspended at, or "idle"
    call,    \* per caller: the arguments and locals of the call in flight
    reply,   \* the call that returned in the step just taken, with what it
             \* returned; NoReply after a step in which no call returned
    manager, \* the ConnectionManager: its three dictionaries
    ws,      \* per WebSocket connection: where its websocket_endpoint stands
    edit_operations,  \* the table edit_operations, in order of insertion
    tickets,   \* the table maintenance_tickets, in order of insertion
    worker,    \* per caller of create_maintenance_ticket: its call in flight
    agent_now, \* the clock maintenance_tickets is stamped with, in units of 12 h
    agent_log, \* the last line the agent's logger wrote in the step just taken,
               \* NoLog after a step that logged nothing
    running,   \* MaintenanceAgent.running
    loop,      \* per monitoring loop of the agent: where its coroutine stands
    alerts,    \* the ticket ids send_alert was called with
    tasks,     \* per background task lifespan() creates: running, or how it ended
    digital_twins,  \* the table digital_twins: the twin ids (1, 2, ... as created)
    twin_versions,  \* the table twin_versions, in order of insertion
    node_health_cache, \* MaintenanceAgent.node_health_cache: node -> NodeHealth
    monitor,   \* heartbeat_monitor: where its coroutine stands
    recommend  \* generate_recommendation: the health it used and what it returned
               \* in its last call

vars == <<now, kv, sql, nextId, pc, call, reply, manager, ws, edit_operations,
          tickets, worker, agent_now, agent_log, running, loop, alerts, tasks,
          digital_twins, twin_versions, node_health_cache, monitor, recommend>>

\* Redis and edit_locks, with the clock and the id source.
lockStore == <<now, kv, sql, nextId>>

\* The connection manager, the WebSocket handlers and the edit log.
connVars == <<manager, ws, edit_operations>>

\* The ticket engine of the maintenance agent.
ticketVars == <<tickets, worker, agent_now, agent_log, running, loop, alerts>>

\* The twins and their versions.
versionVars == <<digital_twins, twin_versions>>

\* What no statement of the LockManager touches.
lockFrame == <<connVars, ticketVars, tasks, versionVars, node_health_cache, monitor,
                recommend>>

\* What no statement of the ConnectionManager, of websocket_endpoint or of
\* submit_edit_operation touches.
connFrame == <<lockStore, ticketVars, tasks, versionVars, node_health_cache, monitor,
                recommend>>

\* What no statement of the MaintenanceAgent touches.
ticketFrame == <<lockStore, pc, call, reply, connVars, tasks, versionVars,
                node_health_cache, monitor, recommend>>

\* What assess_node_health leaves alone.
healthFrame == <<lockStore, pc, call, connVars, ticketVars, tasks, versionVars,
                monitor, recommend>>

\* What the end of a background task leaves alone, besides the lock store.
taskFrame == <<connVars, ticketVars, versionVars, node_health_cache, monitor,
                recommend>>

\* What no statement of create_digital_twin or create_version touches.
versionFrame == <<lockStore, connVars, ticketVars, tasks, node_health_cache, monitor,
                   recommend>>

\* What heartbeat_monitor leaves alone.
monitorFrame == <<lockStore, pc, call, connVars, ticketVars, tasks, versionVars,
                 node_health_cache, recommend>>

\* What generate_recommendation leaves alone.
recommendFrame == <<lockStore, pc, call, reply, connVars, ticketVars, tasks, versionVars,
                   node_health_cache, monitor>>

\* No Redis key.
Nil == [lock_id |-> 0]

LockIds == 1..MaxLocksSerial

NoCall == [op |-> "none"]
NoReply == [op |-> "none"]

\* Return values: a lock id, or Python's None, True, False.
RetNone == [kind |-> "None"]
RetTrue == [kind |-> "True"]
RetFalse == [kind |-> "False"]
RetLock(l) == [kind |-> "lock", lock_id |-> l]

\* An exception that leaves the handler: the caller gets a 500.
RetError == [kind |-> "error"]

\* Call c of caller p returns r.
Returns(p, c, r) ==
    /\ pc' = [pc EXCEPT ![p] = "idle"]
    /\ call' = [call EXCEPT ![p] = NoCall]
    /\ reply' = [op |-> c.op, caller |-> p, args |-> c, ret |-> r]

\* Call c of caller p is suspended at its next await, at.
Awaits(p, c, at) ==
    /\ pc' = [pc EXCEPT ![p] = at]
    /\ call' = [call EXCEPT ![p] = c]
    /\ reply' = NoReply

\* A Python dict with no key.
EmptyDict == [k \in {} |-> k]

\* websocket_endpoint has not begun for the connection.
WsNew == [st |-> "new"]

\* generate_recommendation has not been called.
NoRecommendation == [kind |-> "None"]

\* heartbeat_monitor in its asyncio.sleep.
MonitorAsleep == [pc |-> "sleep", items |-> {}]

\* No call of create_maintenance_ticket in flight.
WorkerIdle == [pc |-> "idle"]

NoLog == [msg |-> "none"]

\* The four coroutines start() gathers.
Loops == {"telemetry_monitor_loop", "predictive_maintenance_loop",
          "schedule_optimizer_loop", "alert_dispatcher_loop"}

\* The background tasks lifespan() creates that the model follows.
Tasks == {"cleanup_stale_locks"}

\* A loop's coroutine before start() has created it.
LoopNew == [pc |-> "new", batch |-> <<>>]

Init ==
    /\ now = 0
    /\ kv = [t \in Twins |-> Nil]
    /\ sql = <<>>
    /\ nextId = 1
    /\ pc = [p \in Procs |-> "idle"]
    /\ call = [p \in Procs |-> NoCall]
    /\ reply = NoReply
    /\ manager = [active_connections |-> EmptyDict, user_sessions |-> EmptyDict,
                  twin_subscribers |-> EmptyDict]
    /\ ws = [w \in Conns |-> WsNew]
    /\ edit_operations = <<>>
    /\ tickets = <<>>
    /\ worker = [w \in Workers |-> WorkerIdle]
    /\ agent_now = 0
    /\ agent_log = NoLog
    /\ running = FALSE
    /\ loop = [l \in Loops |-> LoopNew]
    /\ alerts = {}
    /\ tasks = [t \in Tasks |-> "running"]
    /\ digital_twins = {}
    /\ twin_versions = <<>>
    /\ node_health_cache = EmptyDict
    /\ monitor = MonitorAsleep
    /\ recommend = NoRecommendation

\* --------------------------------------------------------- LockManager

\* The overlap test with the two lists compared for equality instead of intersected.
exclusive_conflict_same_list(existing, components, lock_type) ==
    lock_type = "exclusive" /\ existing.components = components

\* if lock_type == "exclusive" and locked_components & requested_components
exclusive_conflict(existing, components, lock_type) ==
    lock_type = "exclusive" /\ existing.components \cap components # {}

\* if existing_data.get("lock_type") == "exclusive"
exclusive_exists(existing) ==
    existing.lock_type = "exclusive"

\* The SET without nx=True: it always writes.
redis_set_overwrite(store, key) ==
    TRUE

\* redis.set(lock_key, ..., nx=True, ex=timeout): the write happens only if the
\* key does not exist.
redis_set_nx(store, key) ==
    store[key] = Nil

\* acquire_lock up to its first write: the GET of the twin's record and the
\* conflict check.
acquire_lock_get(p, twin_id, components, lock_type, timeout) ==
    /\ pc[p] = "idle"
    /\ LET c == [op |-> "acquire", twin_id |-> twin_id, components |-> components,
                 lock_type |-> lock_type, timeout |-> timeout]
           existing == kv[twin_id]
       IN  IF existing # Nil
              /\ (exclusive_conflict(existing, components, lock_type)
                  \/ exclusive_exists(existing))
           THEN Returns(p, c, RetNone)
           ELSE Awaits(p, c, "acq_set")
    /\ UNCHANGED <<now, kv, sql, nextId>>
    /\ UNCHANGED lockFrame

\* The SET with nx=True but without ex=timeout: the key has no TTL.
acquire_lock_set_no_ex(p) ==
    /\ pc[p] = "acq_set"
    /\ LET c == call[p] IN
       IF redis_set_nx(kv, c.twin_id)
       THEN /\ kv' = [kv EXCEPT ![c.twin_id] =
                        [lock_id |-> nextId, components |-> c.components,
                         lock_type |-> c.lock_type, ttl_until |-> MaxTime + 1]]
            /\ nextId' = nextId + 1
            /\ Awaits(p, c @@ [lock_id |-> nextId], "acq_insert")
       ELSE /\ kv' = kv
            /\ nextId' = nextId
            /\ Returns(p, c, RetNone)
    /\ UNCHANGED <<now, sql>>
    /\ UNCHANGED lockFrame

\* acquire_lock: the SET NX EX of the new record.  lock_id = uuid4() is a fresh
\* id; this is the first statement that shows it to anyone.
acquire_lock_set(p) ==
    /\ pc[p] = "acq_set"
    /\ LET c == call[p] IN
       IF redis_set_nx(kv, c.twin_id)
       THEN /\ kv' = [kv EXCEPT ![c.twin_id] =
                        [lock_id |-> nextId, components |-> c.components,
                         lock_type |-> c.lock_type, ttl_until |-> now + c.timeout]]
            /\ nextId' = nextId + 1
            /\ Awaits(p, c @@ [lock_id |-> nextId], "acq_insert")
       ELSE /\ kv' = kv
            /\ nextId' = nextId
            /\ Returns(p, c, RetNone)
    /\ UNCHANGED <<now, sql>>
    /\ UNCHANGED lockFrame

\* acquire_lock: the INSERT INTO edit_locks and the return of lock_id.  The
\* columns the statement does not name take the table's defaults: is_active
\* TRUE, heartbeat_at NOW().
acquire_lock_insert(p) ==
    /\ pc[p] = "acq_insert"
    /\ LET c == call[p] IN
       /\ sql' = sql @@ (c.lock_id :>
                   [twin_id |-> c.twin_id, components |-> c.components,
                    lock_type |-> c.lock_type, expires_at |-> now + c.timeout,
                    heartbeat_at |-> now, is_active |-> TRUE])
       /\ Returns(p, c, RetLock(c.lock_id))
    /\ UNCHANGED <<now, kv, nextId>>
    /\ UNCHANGED lockFrame

\* acquire_lock: the INSERT INTO edit_locks raises.  Nothing catches it: the
\* exception leaves acquire_lock and the handler, and the Redis record stays.
acquire_lock_insert_raises(p) ==
    /\ pc[p] = "acq_insert"
    /\ Returns(p, call[p], RetError)
    /\ UNCHANGED <<now, kv, sql, nextId>>
    /\ UNCHANGED lockFrame

\* release_lock without its redis.delete: only the row is marked.
release_lock_keep_key(p, lock_id) ==
    /\ pc[p] = "idle"
    /\ LET c == [op |-> "release", lock_id |-> lock_id] IN
       IF lock_id \in DOMAIN sql
       THEN Awaits(p, c @@ [twin_id |-> sql[lock_id].twin_id], "rel_update")
       ELSE Returns(p, c, RetFalse)
    /\ UNCHANGED <<now, kv, sql, nextId>>
    /\ UNCHANGED lockFrame

\* release_lock answering True for a lock id that has no row.
release_lock_unknown_ok(p, lock_id) ==
    /\ pc[p] = "idle"
    /\ LET c == [op |-> "release", lock_id |-> lock_id] IN
       IF lock_id \in DOMAIN sql
       THEN /\ kv' = [kv EXCEPT ![sql[lock_id].twin_id] = Nil]
            /\ Awaits(p, c @@ [twin_id |-> sql[lock_id].twin_id], "rel_update")
       ELSE /\ kv' = kv
            /\ Returns(p, c, RetTrue)
    /\ UNCHANGED <<now, sql, nextId>>
    /\ UNCHANGED lockFrame

\* release_lock: SELECT twin_id ... WHERE lock_id = $1; return False if no row;
\* await self.redis.delete(lock_key).  The SELECT reads only what never changes
\* once the row exists (rows are never deleted, twin_id is never updated), so it
\* is taken in one step with the DELETE of the key that follows it.
release_lock_delete(p, lock_id) ==
    /\ pc[p] = "idle"
    /\ LET c == [op |-> "release", lock_id |-> lock_id] IN
       IF lock_id \in DOMAIN sql
       THEN /\ kv' = [kv EXCEPT ![sql[lock_id].twin_id] = Nil]
            /\ Awaits(p, c @@ [twin_id |-> sql[lock_id].twin_id], "rel_update")
       ELSE /\ kv' = kv
            /\ Returns(p, c, RetFalse)
    /\ UNCHANGED <<now, sql, nextId>>
    /\ UNCHANGED lockFrame

\* release_lock: UPDATE edit_locks SET is_active = FALSE WHERE lock_id = $1; return True
release_lock_update(p) ==
    /\ pc[p] = "rel_update"
    /\ sql' = [sql EXCEPT ![call[p].lock_id].is_active = FALSE]
    /\ Returns(p, call[p], RetTrue)
    /\ UNCHANGED <<now, kv, nextId>>
    /\ UNCHANGED lockFrame

\* heartbeat_lock: UPDATE edit_locks SET heartbeat_at = NOW()
\*                 WHERE lock_id = $1 AND is_active = TRUE;
\*                 SELECT twin_id FROM edit_locks WHERE lock_id = $1; if lock: ...
\* The SELECT, again, reads only what never changes, and is taken in one step
\* with the UPDATE before it.
heartbeat_lock_update(p, lock_id) ==
    /\ pc[p] = "idle"
    /\ sql' = IF lock_id \in DOMAIN sql /\ sql[lock_id].is_active
              THEN [sql EXCEPT ![lock_id].heartbeat_at = now]
              ELSE sql
    /\ LET c == [op |-> "heartbeat", lock_id |-> lock_id] IN
       IF lock_id \in DOMAIN sql
       THEN Awaits(p, c @@ [twin_id |-> sql[lock_id].twin_id], "hb_expire")
       ELSE Returns(p, c, RetNone)
    /\ UNCHANGED <<now, kv, nextId>>
    /\ UNCHANGED lockFrame

\* heartbeat_lock: await self.redis.expire(lock_key, 300); the function ends
\* without a return statement.  EXPIRE on a missing key does nothing.
heartbeat_lock_expire(p) ==
    /\ pc[p] = "hb_expire"
    /\ LET t == call[p].twin_id IN
       kv' = IF kv[t] # Nil
             THEN [kv EXCEPT ![t].ttl_until = now + HeartbeatTTL]
             ELSE kv
    /\ Returns(p, call[p], RetNone)
    /\ UNCHANGED <<now, sql, nextId>>
    /\ UNCHANGED lockFrame

\* The SQL function release_stale_locks(): every active row whose
\* heartbeat_at + grace < now or whose expires_at < now becomes inactive.
release_stale_locks(rows, t) ==
    [l \in DOMAIN rows |->
        IF rows[l].is_active
           /\ (rows[l].heartbeat_at + Grace < t \/ rows[l].expires_at < t)
        THEN [rows[l] EXCEPT !.is_active = FALSE]
        ELSE rows[l]]

\* cleanup_stale_locks: one iteration of the loop.  Its only statement with an
\* effect is db.execute("SELECT release_stale_locks()"); it issues no Redis command.
cleanup_stale_locks ==
    /\ tasks["cleanup_stale_locks"] = "running"
    /\ sql' = release_stale_locks(sql, now)
    /\ reply' = [op |-> "reaper"]
    /\ UNCHANGED <<now, kv, nextId, pc, call>>
    /\ UNCHANGED lockFrame

\* cleanup_stale_locks: db.execute raises.  The while True has no try around its
\* body, so the exception leaves the coroutine and its task is done.
cleanup_stale_locks_raises ==
    /\ tasks["cleanup_stale_locks"] = "running"
    /\ tasks' = [tasks EXCEPT !["cleanup_stale_locks"] = "raised"]
    /\ reply' = [op |-> "reaper"]
    /\ UNCHANGED <<now, kv, sql, nextId, pc, call>>
    /\ UNCHANGED taskFrame

\* The clock advances one tick; Redis drops the keys whose TTL (ex=timeout, or
\* the one EXPIRE set) has run out.
Tick ==
    /\ now < MaxTime
    /\ now' = now + 1
    /\ kv' = [t \in Twins |->
                IF kv[t] # Nil /\ kv[t].ttl_until <= now + 1 THEN Nil ELSE kv[t]]
    /\ reply' = NoReply
    /\ UNCHANGED <<sql, nextId, pc, call>>
    /\ UNCHANGED lockFrame

\* ----------------------------------------------------------- HTTP handlers

\* POST /locks/acquire: 409 when acquire_lock returns None.
acquire_lock_status(r) ==
    IF r.kind = "lock" THEN 200 ELSE 409

\* DELETE /locks/{lock_id}: 404 when release_lock returns False.
release_lock_status(r) ==
    IF r.kind = "True" THEN 200 ELSE 404

\* ---------------------------------------------------- ConnectionManager

\* d[k] = v
Put(d, k, v) == [x \in DOMAIN d \cup {k} |-> IF x = k THEN v ELSE d[x]]

\* del d[k]
Del(d, k) == [x \in DOMAIN d \ {k} |-> d[x]]

\* exclude_session = None
NoSession == "none"

\* connect, after websocket.accept(): the two registrations.
connect(m, websocket, session_id, user_id) ==
    [m EXCEPT
        !.active_connections = Put(@, session_id, websocket),
        !.user_sessions = Put(@, user_id,
                              IF user_id \in DOMAIN @ THEN @[user_id] \cup {session_id}
                                                      ELSE {session_id})]

\* disconnect without its loop over twin_subscribers.
disconnect_keep_subscriptions(m, session_id, user_id) ==
    [active_connections |->
        IF session_id \in DOMAIN m.active_connections
        THEN Del(m.active_connections, session_id)
        ELSE m.active_connections,
     user_sessions |->
        IF user_id \in DOMAIN m.user_sessions
        THEN IF m.user_sessions[user_id] \ {session_id} = {}
             THEN Del(m.user_sessions, user_id)
             ELSE [m.user_sessions EXCEPT ![user_id] = @ \ {session_id}]
        ELSE m.user_sessions,
     twin_subscribers |-> m.twin_subscribers]

\* disconnect with subscribers.clear() in place of subscribers.discard(session_id).
disconnect_clear_subscribers(m, session_id, user_id) ==
    [active_connections |->
        IF session_id \in DOMAIN m.active_connections
        THEN Del(m.active_connections, session_id)
        ELSE m.active_connections,
     user_sessions |->
        IF user_id \in DOMAIN m.user_sessions
        THEN IF m.user_sessions[user_id] \ {session_id} = {}
             THEN Del(m.user_sessions, user_id)
             ELSE [m.user_sessions EXCEPT ![user_id] = @ \ {session_id}]
        ELSE m.user_sessions,
     twin_subscribers |->
        [t \in DOMAIN m.twin_subscribers |-> {}]]

\* disconnect: del active_connections[session_id] if it is there; the session
\* leaves user_sessions[user_id], and the key goes with its last session; the
\* session is discarded from the subscribers of every twin.
disconnect(m, session_id, user_id) ==
    [active_connections |->
        IF session_id \in DOMAIN m.active_connections
        THEN Del(m.active_connections, session_id)
        ELSE m.active_connections,
     user_sessions |->
        IF user_id \in DOMAIN m.user_sessions
        THEN IF m.user_sessions[user_id] \ {session_id} = {}
             THEN Del(m.user_sessions, user_id)
             ELSE [m.user_sessions EXCEPT ![user_id] = @ \ {session_id}]
        ELSE m.user_sessions,
     twin_subscribers |->
        [t \in DOMAIN m.twin_subscribers |-> m.twin_subscribers[t] \ {session_id}]]

\* subscribe_to_twin
subscribe_to_twin(m, session_id, twin_id) ==
    [m EXCEPT !.twin_subscribers =
        Put(@, twin_id, IF twin_id \in DOMAIN @ THEN @[twin_id] \cup {session_id}
                                                ELSE {session_id})]

\* unsubscribe_from_twin.  No statement of the program calls it.
unsubscribe_from_twin(m, session_id, twin_id) ==
    IF twin_id \in DOMAIN m.twin_subscribers
    THEN [m EXCEPT !.twin_subscribers[twin_id] = @ \ {session_id}]
    ELSE m

\* The locals of a broadcast_to_twin under way: its arguments, the set the
\* iterator of the for statement was made on (snapshot: its size is what the
\* iterator compares the set's size with), the sessions the iterator has
\* yielded to a send (visited), the session of the send under way (target), the
\* list disconnected, and the sessions whose send has returned (sent).
broadcast_locals(twin_id, message, exclude_session, snapshot) ==
    [twin_id |-> twin_id, message |-> message, exclude_session |-> exclude_session,
     snapshot |-> snapshot, visited |-> {}, target |-> NoSession,
     disconnected |-> {}, sent |-> {}]

\* The for statement of broadcast_to_twin, from the iterator's next() to the next
\* await: the outcomes it can have.  next() raises RuntimeError (Set changed size
\* during iteration) when the set has another size than when the loop began.
\* Otherwise the loop passes over the excluded session and the sessions without a
\* connection and stops at the next send; it ends when nothing is left.  A
\* session added to the set since the loop began (with another one gone, so that
\* the size is the same) may lie before or behind the iterator's position: the
\* loop may reach it or miss it.
broadcast_iter(m, b) ==
    LET cur == m.twin_subscribers[b.twin_id]
        sendable == {s \in cur \ b.visited :
                        s # b.exclude_session /\ s \in DOMAIN m.active_connections}
    IN  IF Cardinality(cur) # Cardinality(b.snapshot)
        THEN {[kind |-> "raised", b |-> b]}
        ELSE {[kind |-> "send", b |-> [b EXCEPT !.visited = @ \cup {s}, !.target = s]] :
                  s \in sendable}
             \cup (IF sendable \cap b.snapshot = {}
                   THEN {[kind |-> "done", b |-> [b EXCEPT !.target = NoSession]]}
                   ELSE {})

\* broadcast_to_twin from its first statement to its first await.
broadcast_to_twin(m, twin_id, message, exclude_session) ==
    IF twin_id \notin DOMAIN m.twin_subscribers
    THEN {[kind |-> "done", b |-> broadcast_locals(twin_id, message, exclude_session, {})]}
    ELSE broadcast_iter(m, broadcast_locals(twin_id, message, exclude_session,
                                            m.twin_subscribers[twin_id]))

\* await ...send_json(message) returns, or raises and the except clause appends
\* the session to disconnected.
broadcast_sent(b, ok) ==
    IF ok THEN [b EXCEPT !.sent = @ \cup {b.target}]
          ELSE [b EXCEPT !.disconnected = @ \cup {b.target}]

\* for session_id in disconnected: self.twin_subscribers[twin_id].discard(session_id)
broadcast_cleanup(m, b) ==
    IF b.disconnected = {}
    THEN m
    ELSE [m EXCEPT !.twin_subscribers[b.twin_id] = @ \ b.disconnected]

\* ------------------------------------------------- submit_edit_operation

RetOperation(id) == [kind |-> "operation", operation_id |-> id]

\* POST /edit-operations: 200 with the operation id unless the handler raised.
submit_edit_operation_status(r) ==
    IF r.kind = "operation" THEN 200 ELSE 500

\* submit_edit_operation once its broadcast has gone on to outcome r: suspended
\* in the next send, or returning the operation id after the clean-up loop, or
\* left by the RuntimeError, which nothing in the handler catches.
submit_edit_operation_resume(p, c, r) ==
    /\ manager' = IF r.kind = "done" THEN broadcast_cleanup(manager, r.b) ELSE manager
    /\ CASE r.kind = "send"   -> Awaits(p, [b |-> r.b] @@ c, "edit_send")
         [] r.kind = "done"   -> Returns(p, [b |-> r.b] @@ c, RetOperation(c.operation_id))
         [] r.kind = "raised" -> Returns(p, [b |-> r.b] @@ c, RetError)

\* submit_edit_operation up to the first send of its broadcast: operation_id =
\* uuid4() (the ids are 1, 2, ... in order of insertion), the INSERT INTO
\* edit_operations, then broadcast_to_twin(twin_id, message) with no
\* exclude_session.  Nothing reads edit_operations, so the INSERT is taken in
\* one step with the statements that follow it.  No statement looks at edit_locks.
\* The column vector_clock takes json.dumps(operation.vector_clock or {}).
submit_edit_operation(p, twin_id, component_path, vector_clock) ==
    /\ pc[p] = "idle"
    /\ LET operation_id == Len(edit_operations) + 1
           c == [op |-> "edit", operation_id |-> operation_id, twin_id |-> twin_id,
                 component_path |-> component_path, vector_clock |-> vector_clock]
           message == [type |-> "edit_operation", operation_id |-> operation_id]
       IN  /\ edit_operations' = Append(edit_operations,
                                    [twin_id |-> twin_id, user_id |-> p,
                                     component_path |-> component_path,
                                     vector_clock |-> IF vector_clock \in {RetNone, EmptyDict}
                                                      THEN EmptyDict
                                                      ELSE vector_clock])
           /\ \E r \in broadcast_to_twin(manager, twin_id, message, NoSession) :
                 submit_edit_operation_resume(p, c, r)
    /\ UNCHANGED ws
    /\ UNCHANGED connFrame

\* submit_edit_operation: a send of its broadcast returns or raises, and the loop
\* goes on.
submit_edit_operation_send(p) ==
    /\ pc[p] = "edit_send"
    /\ \E ok \in BOOLEAN :
          \E r \in broadcast_iter(manager, broadcast_sent(call[p].b, ok)) :
             submit_edit_operation_resume(p, call[p], r)
    /\ UNCHANGED <<ws, edit_operations>>
    /\ UNCHANGED connFrame

\* ----------------------------------------------------- websocket_endpoint

WsOpen == [st |-> "open"]
WsClosed == [st |-> "closed"]
WsCast(b) == [st |-> "cast", b |-> b]

\* The handler of connection w calls manager.disconnect and ends.
websocket_endpoint_except(w, cause) ==
    /\ manager' = disconnect(manager, session_of[w], user_of[session_of[w]])
    /\ ws' = [ws EXCEPT ![w] = WsClosed]
    /\ reply' = [op |-> "disconnect", caller |-> w,
                 args |-> [session_id |-> session_of[w], cause |-> cause,
                           known |-> \/ session_of[w] \in DOMAIN manager.active_connections
                                     \/ \E u \in DOMAIN manager.user_sessions :
                                           session_of[w] \in manager.user_sessions[u]
                                     \/ \E t \in DOMAIN manager.twin_subscribers :
                                           session_of[w] \in manager.twin_subscribers[t]],
                 ret |-> RetNone]

\* websocket_endpoint up to receive_json: the session row is found (the sessions
\* of the model are those with an active, unexpired row), manager.connect.
websocket_endpoint_connect(w) ==
    /\ ws[w] = WsNew
    /\ manager' = connect(manager, w, session_of[w], user_of[session_of[w]])
    /\ ws' = [ws EXCEPT ![w] = WsOpen]
    /\ reply' = NoReply
    /\ UNCHANGED <<pc, call, edit_operations>>
    /\ UNCHANGED connFrame

\* A subscribe frame.  Should the send of the "subscribed" answer raise, the
\* handler disconnects: that is websocket_endpoint_disconnect, taken next.
websocket_endpoint_subscribe(w, twin_id) ==
    /\ ws[w] = WsOpen
    /\ manager' = subscribe_to_twin(manager, session_of[w], twin_id)
    /\ reply' = NoReply
    /\ UNCHANGED <<pc, call, ws, edit_operations>>
    /\ UNCHANGED connFrame

\* An unsubscribe frame: message_type matches no branch of the if statement and
\* the loop goes back to receive_json.
websocket_endpoint_unsubscribe(w, twin_id) ==
    /\ ws[w] = WsOpen
    /\ reply' = [op |-> "unsubscribe", caller |-> w,
                 args |-> [session_id |-> session_of[w], twin_id |-> twin_id],
                 ret |-> RetNone]
    /\ UNCHANGED <<pc, call, manager, ws, edit_operations>>
    /\ UNCHANGED connFrame

\* The handler of w once its broadcast has gone on to outcome r: suspended in the
\* next send, or back at receive_json, or, on the RuntimeError, in the clause
\* except Exception.
websocket_endpoint_resume(w, r) ==
    CASE r.kind = "send" ->
            /\ manager' = manager
            /\ ws' = [ws EXCEPT ![w] = WsCast(r.b)]
            /\ reply' = NoReply
      [] r.kind = "done" ->
            /\ manager' = broadcast_cleanup(manager, r.b)
            /\ ws' = [ws EXCEPT ![w] = WsOpen]
            /\ reply' = [op |-> "cursor_move", caller |-> w, args |-> [b |-> r.b],
                         ret |-> RetNone]
      [] r.kind = "raised" ->
            websocket_endpoint_except(w, "Exception")

\* A cursor_move frame: broadcast_to_twin(twin_id, message, exclude_session=session_id).
websocket_endpoint_cursor_move(w, twin_id) ==
    /\ ws[w] = WsOpen
    /\ \E r \in broadcast_to_twin(manager, twin_id,
                                  [type |-> "cursor_update",
                                   user_id |-> user_of[session_of[w]]],
                                  session_of[w]) :
          websocket_endpoint_resume(w, r)
    /\ UNCHANGED <<pc, call, edit_operations>>
    /\ UNCHANGED connFrame

\* A send of the cursor_move broadcast returns or raises, and the loop goes on.
websocket_endpoint_send(w) ==
    /\ ws[w].st = "cast"
    /\ \E ok \in BOOLEAN :
          \E r \in broadcast_iter(manager, broadcast_sent(ws[w].b, ok)) :
             websocket_endpoint_resume(w, r)
    /\ UNCHANGED <<pc, call, edit_operations>>
    /\ UNCHANGED connFrame

\* receive_json raises WebSocketDisconnect: the client is gone.
websocket_endpoint_disconnect(w) ==
    /\ ws[w] = WsOpen
    /\ websocket_endpoint_except(w, "WebSocketDisconnect")
    /\ UNCHANGED <<pc, call, edit_operations>>
    /\ UNCHANGED connFrame

\* -------------------------------------------------------- heartbeat_monitor

\* heartbeat_monitor: its sleep is over; list(manager.active_connections.items())
\* is taken and the first send_json is awaited.  With nobody attached the loop
\* goes back to its sleep.
heartbeat_monitor_wake ==
    /\ monitor.pc = "sleep"
    /\ LET items == {[session_id |-> s, websocket |-> manager.active_connections[s]] :
                       s \in DOMAIN manager.active_connections}
       IN  monitor' = IF items = {} THEN MonitorAsleep
                      ELSE [pc |-> "ping", items |-> items]
    /\ reply' = [op |-> "monitor"]
    /\ UNCHANGED monitorFrame

\* heartbeat_monitor: the send_json of a ping returns (ok) or raises; except
\* Exception: pass, and the loop goes on to the next item or to its sleep.  The
\* items are taken in any order.
heartbeat_monitor_ping(ok) ==
    /\ monitor.pc = "ping"
    /\ \E item \in monitor.items :
          /\ monitor' = IF monitor.items = {item} THEN MonitorAsleep
                        ELSE [monitor EXCEPT !.items = @ \ {item}]
          /\ reply' = [op |-> "ping", session_id |-> item.session_id,
                       websocket |-> item.websocket, ok |-> ok]
    /\ UNCHANGED monitorFrame

\* --------------------------------------------------- digital twin endpoints

\* The largest version_number of the rows of twin_id, or 0 if it has none:
\* (latest['max_ver'] or 0) after SELECT MAX(version_number).
max_ver(rows, twin_id) ==
    LET S == {rows[i].version_number : i \in {k \in DOMAIN rows : rows[k].twin_id = twin_id}}
    IN  IF S = {} THEN 0 ELSE CHOOSE x \in S : \A y \in S : y <= x

\* create_digital_twin: twin_id = uuid4() (the ids are 1, 2, ... in order of
\* creation) and the INSERT INTO digital_twins.
create_digital_twin_insert(p) ==
    /\ pc[p] = "idle"
    /\ LET twin_id == Cardinality(digital_twins) + 1 IN
       /\ digital_twins' = digital_twins \cup {twin_id}
       /\ Awaits(p, [op |-> "create_digital_twin", twin_id |-> twin_id], "twin_version")
    /\ UNCHANGED twin_versions
    /\ UNCHANGED versionFrame

\* create_digital_twin: the INSERT INTO twin_versions of version 1, and the return.
create_digital_twin_version(p) ==
    /\ pc[p] = "twin_version"
    /\ twin_versions' = Append(twin_versions,
                               [twin_id |-> call[p].twin_id, version_number |-> 1,
                                is_latest |-> IsLatestDefault])
    /\ Returns(p, call[p], RetNone)
    /\ UNCHANGED digital_twins
    /\ UNCHANGED versionFrame

\* create_version: SELECT MAX(version_number) and new_version_number.
create_version_select(p, twin_id) ==
    /\ pc[p] = "idle"
    /\ Awaits(p, [op |-> "create_version", twin_id |-> twin_id,
                  new_version_number |-> max_ver(twin_versions, twin_id) + 1],
              "version_insert")
    /\ UNCHANGED <<digital_twins, twin_versions>>
    /\ UNCHANGED versionFrame

\* create_version: the INSERT INTO twin_versions, and the return.
create_version_insert(p) ==
    /\ pc[p] = "version_insert"
    /\ twin_versions' = Append(twin_versions,
                               [twin_id |-> call[p].twin_id,
                                version_number |-> call[p].new_version_number,
                                is_latest |-> IsLatestDefault])
    /\ Returns(p, call[p], RetNone)
    /\ UNCHANGED digital_twins
    /\ UNCHANGED versionFrame

\* ------------------------------------------------------ MaintenanceAgent

\* start(), from self.running = True on: gather() creates the four coroutines and
\* each runs to the first await of its first iteration.
start ==
    /\ ~running
    /\ \A l \in Loops : loop[l] = LoopNew
    /\ running' = TRUE
    /\ loop' = [l \in Loops |-> [pc |-> "try", batch |-> <<>>]]
    /\ agent_log' = [msg |-> "started"]
    /\ UNCHANGED <<tickets, worker, agent_now, alerts>>
    /\ UNCHANGED ticketFrame

\* stop(): self.running = False.
stop ==
    /\ running
    /\ running' = FALSE
    /\ agent_log' = [msg |-> "Maintenance Agent stopped."]
    /\ UNCHANGED <<tickets, worker, agent_now, loop, alerts>>
    /\ UNCHANGED ticketFrame

\* A loop with no except clause: the exception leaves the coroutine.
loop_except_escapes(l) ==
    /\ loop[l].pc \in {"try", "update"}
    /\ loop' = [loop EXCEPT ![l] = [pc |-> "returned", batch |-> <<>>]]
    /\ agent_log' = NoLog
    /\ UNCHANGED <<tickets, worker, agent_now, running, alerts>>
    /\ UNCHANGED ticketFrame

\* An await inside the try of loop l raises: except Exception logs the error and
\* the coroutine goes on to the sleep that ends the iteration.
loop_except(l) ==
    /\ loop[l].pc \in {"try", "update"}
    /\ loop' = [loop EXCEPT ![l] = [pc |-> "sleep", batch |-> <<>>]]
    /\ agent_log' = [msg |-> "Error in loop", loop |-> l]
    /\ UNCHANGED <<tickets, worker, agent_now, running, alerts>>
    /\ UNCHANGED ticketFrame

\* The try of telemetry_monitor_loop, predictive_maintenance_loop or
\* schedule_optimizer_loop runs to its end; the coroutine goes on to its sleep.
\* (The tickets these loops create are the calls of the Workers.)
loop_iteration(l) ==
    /\ l # "alert_dispatcher_loop"
    /\ loop[l].pc = "try"
    /\ loop' = [loop EXCEPT ![l] = [pc |-> "sleep", batch |-> <<>>]]
    /\ agent_log' = NoLog
    /\ UNCHANGED <<tickets, worker, agent_now, running, alerts>>
    /\ UNCHANGED ticketFrame

\* The loop as while True: it begins its next iteration whatever running is.
loop_sleep_while_true(l) ==
    /\ loop[l].pc = "sleep"
    /\ loop' = [loop EXCEPT ![l] = [pc |-> "try", batch |-> <<>>]]
    /\ agent_log' = NoLog
    /\ UNCHANGED <<tickets, worker, agent_now, running, alerts>>
    /\ UNCHANGED ticketFrame

\* The sleep of loop l is over: while self.running begins the next iteration,
\* up to its first await, or ends the coroutine.
loop_sleep(l) ==
    /\ loop[l].pc = "sleep"
    /\ loop' = [loop EXCEPT ![l] = [pc |-> IF running THEN "try" ELSE "returned",
                                    batch |-> <<>>]]
    /\ agent_log' = NoLog
    /\ UNCHANGED <<tickets, worker, agent_now, running, alerts>>
    /\ UNCHANGED ticketFrame

\* The larger and the smaller of two numbers: Python's max and min.
max(a, b) == IF a >= b THEN a ELSE b
min(a, b) == IF a <= b THEN a ELSE b

\* 100 * np.exp(-days / 180) in hundredths of a point, rounded, for the ages the
\* model draws: 100 e^0, 100 e^-1, 100 e^-2.
maint_score(days) ==
    CASE days = 0 -> 100 * ScoreScale
      [] days = MaintenanceDays -> 3679
      [] days = 2 * MaintenanceDays -> 1353

\* The health score with the vibration and temperature terms not inverted.
calculate_health_score_direct(vibration, temperature, rpm, tool_wear, days_since_maintenance) ==
    LET vib_score == min(100 * ScoreScale, (vibration * 100 * ScoreScale) \div VIBRATION_CRITICAL)
        temp_score == min(100 * ScoreScale,
                          (temperature * 100 * ScoreScale) \div TEMPERATURE_CRITICAL)
        wear_score == max(0, 100 * ScoreScale - tool_wear * ScoreScale)
        health_score == (30 * vib_score + 25 * temp_score + 25 * wear_score
                         + 20 * maint_score(days_since_maintenance)) \div 100
    IN  max(0, min(100 * ScoreScale, health_score))

\* calculate_health_score, in hundredths of a point: the weighted average of the
\* four scores (weights 0.3, 0.25, 0.25, 0.2), clamped to 0..100.  The quotients
\* are rounded down to a hundredth.  rpm is a parameter the body does not use.
calculate_health_score(vibration, temperature, rpm, tool_wear, days_since_maintenance) ==
    LET vib_score == max(0, 100 * ScoreScale
                            - (vibration * 100 * ScoreScale) \div VIBRATION_CRITICAL)
        temp_score == max(0, 100 * ScoreScale
                             - (temperature * 100 * ScoreScale) \div TEMPERATURE_CRITICAL)
        wear_score == max(0, 100 * ScoreScale - tool_wear * ScoreScale)
        health_score == (30 * vib_score + 25 * temp_score + 25 * wear_score
                         + 20 * maint_score(days_since_maintenance)) \div 100
    IN  max(0, min(100 * ScoreScale, health_score))

\* No row of telemetry_data in the last five minutes.
NoTelemetry == [kind |-> "None"]

\* The NodeHealth assess_node_health returns, given what its two queries return:
\* telemetry is NoTelemetry or the averages of the rows; last_maintenance is None
\* (no node row, or a NULL date) or a last_maintenance_date with its age in days.
node_health(telemetry, last_maintenance) ==
    LET days_since_maintenance == IF last_maintenance = RetNone THEN 0
                                  ELSE last_maintenance.days
    IN  IF telemetry = NoTelemetry
        THEN [status |-> "unknown", health_score |-> 0, vibration_level |-> 0,
              temperature |-> 0, rpm |-> 0, tool_wear |-> 0,
              last_maintenance_days |-> UnknownMaintenanceDays]
        ELSE [status |-> "online",
              health_score |-> calculate_health_score(
                  telemetry.vibration, telemetry.temperature, telemetry.rpm,
                  telemetry.tool_wear, days_since_maintenance),
              vibration_level |-> telemetry.vibration,
              temperature |-> telemetry.temperature, rpm |-> telemetry.rpm,
              tool_wear |-> telemetry.tool_wear,
              last_maintenance_days |-> days_since_maintenance]

\* assess_node_health(node_id) as telemetry_monitor_loop calls it, with the
\* assignment of its result to node_health_cache[node_id].
assess_node_health(node_id, telemetry, last_maintenance) ==
    /\ node_health_cache' = Put(node_health_cache, node_id,
                                node_health(telemetry, last_maintenance))
    /\ reply' = [op |-> "assess_node_health", node_id |-> node_id,
                 telemetry |-> telemetry, last_maintenance |-> last_maintenance]
    /\ UNCHANGED healthFrame

\* generate_recommendation with the tool wear rule taken for wear above 80 only.
generate_recommendation_above(ticket, health) ==
    LET rule == IF health.tool_wear > 80
                THEN [recommended_action |-> "Replace cutting tool immediately",
                      parts_needed |-> <<"Cutting Tool Assembly">>,
                      estimated_cost |-> 450, estimated_downtime_hours |-> 20]
                ELSE IF health.vibration_level >= VIBRATION_CRITICAL
                THEN [recommended_action |-> "Inspect and replace bearings",
                      parts_needed |-> <<"Front Bearing Set", "Rear Bearing Set">>,
                      estimated_cost |-> 1200, estimated_downtime_hours |-> 80]
                ELSE IF health.temperature >= TEMPERATURE_CRITICAL
                THEN [recommended_action |-> "Check cooling system, replace thermal compound",
                      parts_needed |-> <<"Thermal Compound", "Coolant">>,
                      estimated_cost |-> 150, estimated_downtime_hours |-> 30]
                ELSE [recommended_action |-> "Perform routine inspection and lubrication",
                      parts_needed |-> <<"Lubricant", "Filter Kit">>,
                      estimated_cost |-> 80, estimated_downtime_hours |-> 15]
    IN  rule @@ [node_id |-> ticket.node_id, severity |-> ticket.severity,
                 issue_type |-> ticket.title,
                 urgency_hours |-> IF ticket.severity = "critical" THEN 24 ELSE 168]

\* generate_recommendation from the health of the node on: the if/elif chain and
\* the MaintenanceRecommendation it returns.  Costs are in dollars, downtimes in
\* tenths of an hour.
generate_recommendation(ticket, health) ==
    LET rule == IF health.tool_wear >= 80
                THEN [recommended_action |-> "Replace cutting tool immediately",
                      parts_needed |-> <<"Cutting Tool Assembly">>,
                      estimated_cost |-> 450, estimated_downtime_hours |-> 20]
                ELSE IF health.vibration_level >= VIBRATION_CRITICAL
                THEN [recommended_action |-> "Inspect and replace bearings",
                      parts_needed |-> <<"Front Bearing Set", "Rear Bearing Set">>,
                      estimated_cost |-> 1200, estimated_downtime_hours |-> 80]
                ELSE IF health.temperature >= TEMPERATURE_CRITICAL
                THEN [recommended_action |-> "Check cooling system, replace thermal compound",
                      parts_needed |-> <<"Thermal Compound", "Coolant">>,
                      estimated_cost |-> 150, estimated_downtime_hours |-> 30]
                ELSE [recommended_action |-> "Perform routine inspection and lubrication",
                      parts_needed |-> <<"Lubricant", "Filter Kit">>,
                      estimated_cost |-> 80, estimated_downtime_hours |-> 15]
    IN  rule @@ [node_id |-> ticket.node_id, severity |-> ticket.severity,
                 issue_type |-> ticket.title,
                 urgency_hours |-> IF ticket.severity = "critical" THEN 24 ELSE 168]

\* schedule_optimizer_loop calls generate_recommendation for ticket ticket_id, one
\* of the open or acknowledged tickets: the health comes from node_health_cache
\* or, for a node that is not cached, from assess_node_health, whose queries
\* return telemetry and last_maintenance; that result is not cached.
schedule_optimizer_loop_recommend(ticket_id, telemetry, last_maintenance) ==
    /\ ticket_id \in DOMAIN tickets
    /\ tickets[ticket_id].status \in {"open", "acknowledged"}
    /\ LET ticket == tickets[ticket_id]
           health == IF ticket.node_id \in DOMAIN node_health_cache
                     THEN node_health_cache[ticket.node_id]
                     ELSE node_health(telemetry, last_maintenance)
       IN  recommend' = [ticket_id |-> ticket_id, health |-> health,
                         recommendation |-> generate_recommendation(ticket, health)]
    /\ UNCHANGED recommendFrame

\* The SELECT without status acknowledged in its IN list.
existing_open_only(rows, node_id, title, t) ==
    \E i \in DOMAIN rows :
        /\ rows[i].node_id = node_id
        /\ rows[i].title = title
        /\ rows[i].status = "open"
        /\ rows[i].created_at > t - DedupWindow

\* The SELECT of create_maintenance_ticket finds a row: same node_id, same title,
\* status open or acknowledged, created_at > NOW() - INTERVAL '24 hours'.
existing(rows, node_id, title, t) ==
    \E i \in DOMAIN rows :
        /\ rows[i].node_id = node_id
        /\ rows[i].title = title
        /\ rows[i].status \in {"open", "acknowledged"}
        /\ rows[i].created_at > t - DedupWindow

\* create_maintenance_ticket up to its INSERT: the SELECT, and the return if it
\* found a row.
create_maintenance_ticket_select(w, node_id, severity, title) ==
    /\ worker[w] = WorkerIdle
    /\ worker' = IF existing(tickets, node_id, title, agent_now)
                 THEN worker
                 ELSE [worker EXCEPT ![w] = [pc |-> "insert", node_id |-> node_id,
                                             severity |-> severity, title |-> title]]
    /\ agent_log' = IF existing(tickets, node_id, title, agent_now)
                    THEN [msg |-> "Duplicate ticket suppressed", caller |-> w,
                          node_id |-> node_id, title |-> title]
                    ELSE NoLog
    /\ UNCHANGED <<tickets, agent_now, running, loop, alerts>>
    /\ UNCHANGED ticketFrame

\* create_maintenance_ticket: the INSERT INTO maintenance_tickets.  The columns
\* the statement does not name take the table's defaults: status open,
\* created_at NOW(), acknowledged_at NULL.
create_maintenance_ticket_insert(w) ==
    /\ worker[w].pc = "insert"
    /\ tickets' = Append(tickets, [node_id |-> worker[w].node_id,
                                   severity |-> worker[w].severity,
                                   title |-> worker[w].title,
                                   status |-> "open", created_at |-> agent_now,
                                   acknowledged_at |-> Null])
    /\ worker' = [worker EXCEPT ![w] = WorkerIdle]
    /\ agent_log' = [msg |-> "Created ticket", caller |-> w,
                     node_id |-> worker[w].node_id, title |-> worker[w].title]
    /\ UNCHANGED <<agent_now, running, loop, alerts>>
    /\ UNCHANGED ticketFrame

\* The SELECT of alert_dispatcher_loop: the ticket ids (positions in the table) of
\* the rows of severity critical or high, status open, created_at > NOW() -
\* INTERVAL '1 hour', at time t.
alert_dispatcher_loop_select(rows, t) ==
    SelectSeq([i \in 1..Len(rows) |-> i],
              LAMBDA i : /\ rows[i].severity \in {"critical", "high"}
                         /\ rows[i].status = "open"
                         /\ rows[i].created_at * HoursPerTick
                              > t * HoursPerTick - AlertWindowHours)

\* alert_dispatcher_loop from the return of its SELECT on: send_alert for the
\* first ticket and the await of its UPDATE, or the sleep if there is no ticket.
alert_dispatcher_loop_fetch ==
    LET l == "alert_dispatcher_loop"
        batch == alert_dispatcher_loop_select(tickets, agent_now)
    IN  /\ loop[l].pc = "try"
        /\ IF batch = <<>>
           THEN /\ loop' = [loop EXCEPT ![l] = [pc |-> "sleep", batch |-> <<>>]]
                /\ agent_log' = NoLog
                /\ UNCHANGED alerts
           ELSE /\ loop' = [loop EXCEPT ![l] = [pc |-> "update", batch |-> batch]]
                /\ agent_log' = [msg |-> "Sending alert", ticket_id |-> Head(batch)]
                /\ alerts' = alerts \cup {Head(batch)}
        /\ UNCHANGED <<tickets, worker, agent_now, running>>
        /\ UNCHANGED ticketFrame

\* alert_dispatcher_loop: the UPDATE of the ticket just alerted for, then
\* send_alert for the next ticket of the batch and the await of its UPDATE, or
\* the sleep after the last one.
alert_dispatcher_loop_update ==
    LET l == "alert_dispatcher_loop"
        ticket_id == Head(loop[l].batch)
        rest == Tail(loop[l].batch)
    IN  /\ loop[l].pc = "update"
        /\ tickets' = [tickets EXCEPT ![ticket_id].status = "acknowledged",
                                      ![ticket_id].acknowledged_at = agent_now]
        /\ IF rest = <<>>
           THEN /\ loop' = [loop EXCEPT ![l] = [pc |-> "sleep", batch |-> <<>>]]
                /\ agent_log' = NoLog
                /\ UNCHANGED alerts
           ELSE /\ loop' = [loop EXCEPT ![l] = [pc |-> "update", batch |-> rest]]
                /\ agent_log' = [msg |-> "Sending alert", ticket_id |-> Head(rest)]
                /\ alerts' = alerts \cup {Head(rest)}
        /\ UNCHANGED <<worker, agent_now, running>>
        /\ UNCHANGED ticketFrame

\* Somebody other than the agent works on a ticket: its status goes from open or
\* acknowledged to in_progress or resolved.
operator_update(ticket_id, status) ==
    /\ ticket_id \in DOMAIN tickets
    /\ tickets[ticket_id].status \in {"open", "acknowledged"}
    /\ status \in {"in_progress", "resolved"}
    /\ tickets' = [tickets EXCEPT ![ticket_id].status = status]
    /\ agent_log' = NoLog
    /\ UNCHANGED <<worker, agent_now, running, loop, alerts>>
    /\ UNCHANGED ticketFrame

\* Twelve hours pass.
AgentTick ==
    /\ agent_now < MaxAgentTime
    /\ agent_now' = agent_now + 1
    /\ agent_log' = NoLog
    /\ UNCHANGED <<tickets, worker, running, loop, alerts>>
    /\ UNCHANGED ticketFrame

\* ------------------------------------------------------------ specification

\* Ids remain for a new acquire and for every acquire that has not yet written.
IdsLeft(bound) ==
    nextId + Cardinality({q \in Procs : pc[q] = "acq_set"}) <= bound

AcquireStart(bound) ==
    /\ IdsLeft(bound)
    /\ \E p \in Procs, t \in Twins, cs \in ComponentLists, ty \in LockTypes, to \in Timeouts :
          acquire_lock_get(p, t, cs, ty, to)

AcquireResume ==
    \E p \in Procs :
        \/ acquire_lock_set(p)
        \/ acquire_lock_insert(p)

ReleaseStart ==
    \E p \in Procs, l \in LockIds : release_lock_delete(p, l)

ReleaseResume ==
    \E p \in Procs : release_lock_update(p)

HeartbeatStart ==
    \E p \in Procs, l \in LockIds : heartbeat_lock_update(p, l)

HeartbeatResume ==
    \E p \in Procs : heartbeat_lock_expire(p)

\* Calls of concurrent callers interleave at every await, with the clock and the reaper.
Next ==
    \/ AcquireStart(MaxLocks)
    \/ AcquireResume
    \/ ReleaseStart
    \/ ReleaseResume
    \/ HeartbeatStart
    \/ HeartbeatResume
    \/ cleanup_stale_locks
    \/ Tick

Spec == Init /\ [][Next]_vars

\* No call is in flight.
Quiet == \A p \in Procs : pc[p] = "idle"

\* One call at a time: a call, a reaper pass or a tick starts only when no call
\* is in flight.  Every behaviour of SpecSerial is a sequence of whole calls.
NextSerial ==
    \/ Quiet /\ AcquireStart(MaxLocksSerial)
    \/ AcquireResume
    \/ Quiet /\ ReleaseStart
    \/ ReleaseResume
    \/ Quiet /\ HeartbeatStart
    \/ HeartbeatResume
    \/ Quiet /\ cleanup_stale_locks
    \/ Quiet /\ Tick

SpecSerial == Init /\ [][NextSerial]_vars

\* Concurrent acquire calls alone: no release, no heartbeat, no expiry.
NextAcquire ==
    \/ AcquireStart(MaxLocks)
    \/ AcquireResume

SpecAcquire == Init /\ [][NextAcquire]_vars

\* The telemetry monitor assesses nodes, whatever their telemetry.
NextHealth ==
    \/ \E n \in Nodes : assess_node_health(n, NoTelemetry, RetNone)
    \/ \E n \in Nodes, v \in Vibrations, t \in Temperatures, w \in ToolWears,
          d \in {[kind |-> "date", days |-> a] : a \in MaintenanceAges} \cup {RetNone} :
          assess_node_health(n, [vibration |-> v, temperature |-> t, rpm |-> 0,
                                 tool_wear |-> w], d)

SpecHealth == Init /\ [][NextHealth]_vars

\* The telemetry any query of assess_node_health may meet, and the dates.
Telemetries ==
    {[vibration |-> v, temperature |-> t, rpm |-> 0, tool_wear |-> w] :
        v \in Vibrations, t \in Temperatures, w \in ToolWears} \cup {NoTelemetry}
MaintenanceDates ==
    {[kind |-> "date", days |-> a] : a \in MaintenanceAges} \cup {RetNone}

\* One ticket of any severity, a node that is cached or not, and the schedule
\* optimizer recommending for the ticket.
NextRecommend ==
    \/ /\ Len(tickets) < MaxTicketsLoops
       /\ \E n \in Nodes, sev \in AllSeverities :
             create_maintenance_ticket_select("a1", n, sev, "Anomalous behavior detected")
    \/ create_maintenance_ticket_insert("a1")
    \/ \E n \in Nodes, w \in {50, 80} :
          assess_node_health(n, [vibration |-> 80, temperature |-> 95, rpm |-> 0,
                                 tool_wear |-> w], RetNone)
    \/ \E i \in 1..MaxTicketsLoops, tel \in Telemetries, d \in MaintenanceDates :
          schedule_optimizer_loop_recommend(i, tel, d)

SpecRecommend == Init /\ [][NextRecommend]_vars

\* Callers create twins and versions; their calls interleave at every await.
NextVersions ==
    \/ /\ Cardinality(digital_twins) < MaxTwins
       /\ \E p \in Procs : create_digital_twin_insert(p)
    \/ \E p \in Procs : create_digital_twin_version(p)
    \/ /\ Len(twin_versions) + Cardinality({p \in Procs : pc[p] # "idle"}) < MaxVersions
       /\ \E p \in Procs, t \in digital_twins : create_version_select(p, t)
    \/ \E p \in Procs : create_version_insert(p)

SpecVersions == Init /\ [][NextVersions]_vars

\* Acquires whose INSERT may raise, with the reaper and the clock.  The clock
\* does not stop while it can advance; a SET is issued while the clock has the
\* ticks left for the TTL of the key to run out.
NextOrphan ==
    \/ AcquireStart(MaxLocks)
    \/ \E p \in Procs : pc[p] = "acq_set" /\ now + call[p].timeout <= MaxTime
                          /\ acquire_lock_set(p)
    \/ \E p \in Procs : acquire_lock_insert(p)
    \/ \E p \in Procs : acquire_lock_insert_raises(p)
    \/ cleanup_stale_locks
    \/ Tick

SpecOrphan == Init /\ [][NextOrphan]_vars /\ WF_vars(Tick)

\* Acquires beside a reaper whose db.execute may raise.
NextReaper ==
    \/ AcquireStart(MaxLocks)
    \/ AcquireResume
    \/ cleanup_stale_locks
    \/ cleanup_stale_locks_raises
    \/ Tick

SpecReaper == Init /\ [][NextReaper]_vars

\* Broadcasts under way.
CastsInFlight ==
    Cardinality({p \in Procs : pc[p] = "edit_send"})
        + Cardinality({w \in Conns : ws[w].st = "cast"})

EditStart(twins, paths, clocks, bound) ==
    /\ Len(edit_operations) < bound
    /\ \E p \in Procs, t \in twins, path \in paths, vc \in clocks :
          submit_edit_operation(p, t, path, vc)

EditResume ==
    \E p \in Procs : submit_edit_operation_send(p)

WsConnect ==
    \E w \in Conns : websocket_endpoint_connect(w)

WsSubscribe ==
    \E w \in Conns, t \in WsTwins : websocket_endpoint_subscribe(w, t)

WsUnsubscribe ==
    \E w \in Conns, t \in WsTwins : websocket_endpoint_unsubscribe(w, t)

WsCursorMove ==
    \E w \in Conns, t \in WsTwins : websocket_endpoint_cursor_move(w, t)

WsSend ==
    \E w \in Conns : websocket_endpoint_send(w)

WsDisconnect ==
    \E w \in Conns : websocket_endpoint_disconnect(w)

\* The WebSocket handlers and the edit endpoint, interleaved at every await.
NextConn ==
    \/ CastsInFlight < MaxCasts /\ EditStart(WsTwins, {"chassis.bolt1"}, {RetNone}, MaxOps)
    \/ EditResume
    \/ WsConnect
    \/ WsSubscribe
    \/ WsUnsubscribe
    \/ CastsInFlight < MaxCasts /\ WsCursorMove
    \/ WsSend
    \/ WsDisconnect

SpecConn == Init /\ [][NextConn]_vars


\* Connections come and go while heartbeat_monitor pings them; the monitor is
\* scheduled again and again, the clients need not do anything.
NextPing ==
    \/ WsConnect
    \/ WsSubscribe
    \/ WsDisconnect
    \/ heartbeat_monitor_wake
    \/ \E ok \in BOOLEAN : heartbeat_monitor_ping(ok)

SpecPing ==
    /\ Init /\ [][NextPing]_vars
    /\ WF_vars(heartbeat_monitor_wake)
    /\ WF_vars(\E ok \in BOOLEAN : heartbeat_monitor_ping(ok))

\* POST /locks/acquire by the user Holder alone: every row of edit_locks is then a
\* lock of Holder, taken for Holder's session.
HolderAcquireStart(bound) ==
    /\ IdsLeft(bound)
    /\ \E t \in Twins, cs \in ComponentLists, ty \in LockTypes, to \in Timeouts :
          acquire_lock_get(Holder, t, cs, ty, to)

\* Locks and sessions: Holder takes and releases locks while the connections
\* come and go and both users post edits.  No session subscribes, so that every
\* broadcast returns at once.
NextSession ==
    \/ HolderAcquireStart(MaxLocksSession)
    \/ AcquireResume
    \/ ReleaseStart
    \/ ReleaseResume
    \/ WsConnect
    \/ WsDisconnect
    \/ EditStart(Twins, Paths, {RetNone}, MaxOps)

SpecSession == Init /\ [][NextSession]_vars

\* Edits posted with vector clocks, one call at a time, nobody subscribed.
NextEdits ==
    \/ EditStart(WsTwins, {"chassis.bolt1"}, VectorClocks, MaxOpsEdits)

SpecEdits == Init /\ [][NextEdits]_vars

\* Tickets remain for a new call and for every call that has not yet inserted.
TicketsLeft ==
    Len(tickets) + Cardinality({w \in Workers : worker[w].pc = "insert"}) < MaxTickets

TicketStart ==
    /\ TicketsLeft
    /\ \E w \in Workers, n \in Nodes, sev \in Severities, title \in Titles :
          create_maintenance_ticket_select(w, n, sev, title)

TicketResume ==
    \E w \in Workers : create_maintenance_ticket_insert(w)

\* Parallel workers call create_maintenance_ticket; their calls interleave at
\* every await.
\* The alert dispatcher runs beside them.
NextTickets ==
    \/ TicketStart
    \/ TicketResume
    \/ AgentTick
    \/ start
    \/ alert_dispatcher_loop_fetch
    \/ alert_dispatcher_loop_update
    \/ loop_except("alert_dispatcher_loop")
    \/ loop_sleep("alert_dispatcher_loop")

SpecTickets == Init /\ [][NextTickets]_vars

\* One call of create_maintenance_ticket at a time, as long as the table has
\* fewer than MaxTicketsLoops rows.
LoopTicketStart ==
    /\ Len(tickets) < MaxTicketsLoops
    /\ \A w \in Workers : worker[w] = WorkerIdle
    /\ \E w \in Workers, n \in Nodes, title \in Titles :
          create_maintenance_ticket_select(w, n, "critical", title)

\* The agent from start() to stop(): its four loops, each an iteration at a time,
\* any await of which may raise.
NextLoops ==
    \/ start
    \/ stop
    \/ \E l \in Loops : loop_iteration(l)
    \/ \E l \in Loops : loop_except(l)
    \/ \E l \in Loops : loop_sleep(l)
    \/ alert_dispatcher_loop_fetch
    \/ alert_dispatcher_loop_update
    \/ LoopTicketStart
    \/ TicketResume

SpecLoops == Init /\ [][NextLoops]_vars

\* The next step of the coroutine of loop l, whatever it is.
LoopStep(l) ==
    \/ loop_iteration(l)
    \/ loop_except(l)
    \/ loop_sleep(l)
    \/ l = "alert_dispatcher_loop" /\ alert_dispatcher_loop_fetch
    \/ l = "alert_dispatcher_loop" /\ alert_dispatcher_loop_update

\* The agent under a fair event loop: no coroutine that can take a step waits
\* for ever (an awaited query returns or raises, a sleep ends).
SpecStop ==
    /\ Init /\ [][NextLoops]_vars
    /\ \A l \in Loops : WF_vars(LoopStep(l))

\* The alert dispatcher beside an operator who works on the tickets.
NextOperator ==
    \/ LoopTicketStart
    \/ TicketResume
    \/ start
    \/ alert_dispatcher_loop_fetch
    \/ alert_dispatcher_loop_update
    \/ loop_sleep("alert_dispatcher_loop")
    \/ \E i \in 1..MaxTicketsLoops, st \in {"in_progress", "resolved"} :
          operator_update(i, st)
    \/ AgentTick

SpecOperator == Init /\ [][NextOperator]_vars

\* ------------------------------------------------------------------ claims

\* Lock l is active: its row is active and has not run out, and no release of
\* it is under way.
Active(l) ==
    /\ l \in DOMAIN sql
    /\ sql[l].is_active
    /\ sql[l].expires_at > now
    /\ \A p \in Procs : ~(pc[p] = "rel_update" /\ call[p].lock_id = l)

\* The call caller p starts in this step (NoCall if it starts none).  A call that
\* returns in its first step shows in reply', any other in call'.
StartedCall(p) ==
    IF pc[p] # "idle" THEN NoCall
    ELSE IF pc'[p] # "idle" THEN call'[p]
    ELSE IF reply'.op \in {"acquire", "release", "heartbeat"} /\ reply'.caller = p
         THEN reply'.args
         ELSE NoCall

\* The record another lock than the reply's own holds on the twin of the
\* acquire that just returned.
OtherHolder ==
    /\ reply.op = "acquire"
    /\ kv[reply.args.twin_id] # Nil
    /\ (reply.ret.kind = "lock" => kv[reply.args.twin_id].lock_id # reply.ret.lock_id)

\* C1: in every reachable state, no two active locks on the same twin have
\* overlapping components unless both are shared.
C1_MutualExclusion ==
    \A l1 \in DOMAIN sql, l2 \in DOMAIN sql :
        (/\ l1 # l2
         /\ Active(l1) /\ Active(l2)
         /\ sql[l1].twin_id = sql[l2].twin_id
         /\ sql[l1].components \cap sql[l2].components # {})
        => (sql[l1].lock_type = "shared" /\ sql[l2].lock_type = "shared")

\* C2: an acquire that returns while the twin's holder owns only components
\* disjoint from the requested ones returns a lock_id.
C2_DisjointAcquireSucceeds ==
    (/\ OtherHolder
     /\ kv[reply.args.twin_id].components \cap reply.args.components = {})
    => reply.ret.kind = "lock"

\* C3: an exclusive acquire that starts while a holder, exclusive or shared, owns
\* a requested component returns None in that step (409), and the step changes
\* neither Redis nor edit_locks.
C3_ExclusiveConflict ==
    [][\A p \in Procs :
        LET c == StartedCall(p) IN
        (/\ c.op = "acquire"
         /\ c.lock_type = "exclusive"
         /\ kv[c.twin_id] # Nil
         /\ kv[c.twin_id].components \cap c.components # {})
        => (/\ pc'[p] = "idle"
            /\ reply'.ret = RetNone
            /\ acquire_lock_status(reply'.ret) = 409
            /\ kv' = kv
            /\ sql' = sql
            /\ nextId' = nextId)]_vars

\* C3 witness: an exclusive acquire was refused on a component a shared holder owns.
C3_Witness ==
    /\ OtherHolder
    /\ reply.args.lock_type = "exclusive"
    /\ reply.ret = RetNone
    /\ kv[reply.args.twin_id].lock_type = "shared"
    /\ kv[reply.args.twin_id].components \cap reply.args.components # {}
    /\ kv[reply.args.twin_id].components # reply.args.components

\* C4: a shared acquire that returns while another shared lock holds the twin
\* returns a lock_id.
C4_SharedCoexist ==
    (/\ OtherHolder
     /\ reply.args.lock_type = "shared"
     /\ kv[reply.args.twin_id].lock_type = "shared")
    => reply.ret.kind = "lock"

\* C5: of the acquire calls that run concurrently on a twin, no two that request
\* overlapping components, one of them exclusively, both get a lock.
C5_OneWinner ==
    \A l1 \in DOMAIN sql, l2 \in DOMAIN sql :
        (/\ l1 # l2
         /\ sql[l1].twin_id = sql[l2].twin_id
         /\ sql[l1].components \cap sql[l2].components # {})
        => (sql[l1].lock_type = "shared" /\ sql[l2].lock_type = "shared")

\* C5 witness: a caller has passed its check on a read that is now stale: since
\* it read, an overlapping lock was installed, and one of the two is exclusive.
C5_Witness ==
    \E p \in Procs :
        /\ pc[p] = "acq_set"
        /\ kv[call[p].twin_id] # Nil
        /\ kv[call[p].twin_id].components \cap call[p].components # {}
        /\ kv[call[p].twin_id].components # call[p].components
        /\ (call[p].lock_type = "exclusive" \/ kv[call[p].twin_id].lock_type = "exclusive")

\* C6: the first step of a release of an issued lock leaves no Redis key for the
\* twin; its last step marks the row inactive, returns True and leaves Redis as
\* it is.
C6_AcquireRelease ==
    [][\A p \in Procs :
        /\ LET c == StartedCall(p) IN
           (c.op = "release" /\ c.lock_id \in DOMAIN sql)
           => (pc'[p] = "rel_update" /\ kv'[sql[c.lock_id].twin_id] = Nil)
        /\ (pc[p] = "rel_update" /\ pc'[p] # "rel_update")
           => (/\ pc'[p] = "idle"
               /\ reply'.op = "release" /\ reply'.caller = p
               /\ reply'.ret = RetTrue
               /\ ~sql'[call[p].lock_id].is_active
               /\ kv' = kv)]_vars

\* C6 witness: a release returned True; the twin has no key, the row is inactive.
C6_Witness ==
    /\ reply.op = "release"
    /\ reply.ret = RetTrue
    /\ kv[reply.args.twin_id] = Nil
    /\ ~sql[reply.args.lock_id].is_active

\* C7: a release of lock l leaves the twin's record alone when it is the record
\* of another lock.
C7_ReleaseOnlyOwn ==
    [][\A p \in Procs :
        LET c == StartedCall(p) IN
        (/\ c.op = "release"
         /\ c.lock_id \in DOMAIN sql
         /\ kv[sql[c.lock_id].twin_id] # Nil
         /\ kv[sql[c.lock_id].twin_id].lock_id # c.lock_id)
        => kv' = kv]_vars

\* C8: a release of a lock id that has no row returns False in its first step
\* (404), and the step changes neither Redis nor edit_locks.
C8_ReleaseUnknown ==
    [][\A p \in Procs :
        LET c == StartedCall(p) IN
        (c.op = "release" /\ c.lock_id \notin DOMAIN sql)
        => (/\ pc'[p] = "idle"
            /\ reply'.ret = RetFalse
            /\ release_lock_status(reply'.ret) = 404
            /\ kv' = kv
            /\ sql' = sql)]_vars

\* C8 witness: a release of an unissued id returned False while a lock is held.
C8_Witness ==
    /\ reply.op = "release"
    /\ reply.ret = RetFalse
    /\ reply.args.lock_id \notin DOMAIN sql
    /\ \E t \in Twins : kv[t] # Nil
    /\ \E l \in DOMAIN sql : sql[l].is_active

\* C9: a heartbeat that returns while the twin has no Redis key returns Expired.
C9_HeartbeatExpired ==
    (/\ reply.op = "heartbeat"
     /\ "twin_id" \in DOMAIN reply.args
     /\ kv[reply.args.twin_id] = Nil)
    => reply.ret.kind = "Expired"

\* C10: right after a reaper pass, every lock whose heartbeat_at + grace < now or
\* whose expires_at < now has an inactive row and no Redis record.
C10_ReaperCleans ==
    reply.op = "reaper"
    => \A l \in DOMAIN sql :
          (sql[l].heartbeat_at + Grace < now \/ sql[l].expires_at < now)
          => (~sql[l].is_active /\ kv[sql[l].twin_id].lock_id # l)

\* C11: a reaper pass leaves alone every lock that has been kept alive by
\* heartbeats: a lock whose row is active, whose heartbeat_at is the current tick
\* and whose Redis record carries the TTL a heartbeat of this tick gave it keeps
\* its active row and its Redis record across the pass.
C11_HeartbeatKeepsAlive ==
    [][reply'.op = "reaper" =>
        \A l \in DOMAIN sql :
            (/\ sql[l].is_active
             /\ sql[l].heartbeat_at = now
             /\ kv[sql[l].twin_id].lock_id = l
             /\ kv[sql[l].twin_id].ttl_until = now + HeartbeatTTL)
            => (sql'[l].is_active /\ kv'[sql[l].twin_id].lock_id = l)]_vars

\* C12: once the handler of a connection of Holder's session has disconnected,
\* with no call in flight, no lock of Holder's is left: edit_locks has no active
\* row and Redis no record.
C12_SessionEndReleases ==
    (/\ reply.op = "disconnect"
     /\ user_of[reply.args.session_id] = Holder
     /\ Quiet)
    => (/\ \A l \in DOMAIN sql : ~Active(l)
        /\ \A t \in Twins : kv[t] = Nil)

\* C13: an edit operation that was persisted and answered with its id was posted
\* by a user who holds an active lock on the twin with the operation's
\* component_path among its components.
C13_EditNeedsLock ==
    (/\ reply.op = "edit"
     /\ reply.ret.kind = "operation")
    => \E l \in DOMAIN sql :
          /\ Active(l)
          /\ reply.caller = Holder
          /\ sql[l].twin_id = reply.args.twin_id
          /\ reply.args.component_path \in sql[l].components

\* C14: when an edit operation has been answered with its id, every session that
\* is subscribed to the twin and connected, and whose send did not fail, has been
\* sent the edit_operation frame, except the sessions of the user who posted the
\* operation: these have been sent none.
C14_EditFanOut ==
    (/\ reply.op = "edit"
     /\ reply.ret.kind = "operation")
    => LET b == reply.args.b IN
       \A s \in Sessions :
          IF user_of[s] = reply.caller
          THEN s \notin b.sent
          ELSE (/\ s \in b.snapshot
                /\ s \in DOMAIN manager.active_connections
                /\ s \notin b.disconnected)
               => s \in b.sent

\* The sessions a send of a broadcast begins to in this step.
SendBegins(before, after) ==
    IF after.visited # before.visited THEN {after.target} ELSE {}

\* Session s is in one of the three dictionaries of m.
Known(m, s) ==
    \/ s \in DOMAIN m.active_connections
    \/ \E u \in DOMAIN m.user_sessions : s \in m.user_sessions[u]
    \/ \E t \in DOMAIN m.twin_subscribers : s \in m.twin_subscribers[t]

\* C15: no broadcast raises into its caller: no edit operation is answered with
\* an error and no WebSocket handler ends in its clause except Exception.
C15_BroadcastNeverRaises ==
    /\ reply.op = "edit" => reply.ret # RetError
    /\ reply.op = "disconnect" => reply.args.cause # "Exception"

\* C16: when a broadcast has ended, every session a send of it failed for is in
\* none of the three dictionaries.
C16_FailedSendDetaches ==
    (/\ reply.op \in {"edit", "cursor_move"}
     /\ reply.ret # RetError)
    => \A s \in reply.args.b.disconnected : ~Known(manager, s)

\* C17: a step in which a handler disconnects leaves its session in none of the
\* three dictionaries, and a send of a broadcast begins only to a session that has
\* a connection registered.
C17_DetachRemoves ==
    [][/\ reply'.op = "disconnect" => ~Known(manager', reply'.args.session_id)
       /\ \A p \in Procs :
             pc'[p] = "edit_send"
             => LET before == IF pc[p] = "edit_send" THEN call[p].b
                              ELSE broadcast_locals(0, 0, 0, {})
                IN  SendBegins(before, call'[p].b) \subseteq DOMAIN manager.active_connections
       /\ \A w \in Conns :
             ws'[w].st = "cast"
             => LET before == IF ws[w].st = "cast" THEN ws[w].b
                              ELSE broadcast_locals(0, 0, 0, {})
                IN  SendBegins(before, ws'[w].b) \subseteq DOMAIN manager.active_connections]_vars

\* C17 witness: a session has just been detached while a broadcast is under way
\* that began when the session was subscribed to its twin and has not reached it.
C17_Witness ==
    /\ reply.op = "disconnect"
    /\ reply.args.known
    /\ \E p \in Procs :
          /\ pc[p] = "edit_send"
          /\ reply.args.session_id \in call[p].b.snapshot \ call[p].b.visited

\* C18: a step in which a handler disconnects a session that is in none of the
\* three dictionaries leaves the three dictionaries as they are, and the handler
\* ends without an error.
C18_DetachIdempotent ==
    [][(/\ reply'.op = "disconnect"
        /\ ~Known(manager, reply'.args.session_id))
       => (/\ manager' = manager
           /\ ws'[reply'.caller] = WsClosed
           /\ reply'.ret = RetNone)]_vars

\* C18 witness: the second of two connections of a session has disconnected
\* after the first one had, while other sessions are connected and subscribed.
C18_Witness ==
    /\ reply.op = "disconnect"
    /\ ~reply.args.known
    /\ \E w \in Conns \ {reply.caller} :
          ws[w] = WsClosed /\ session_of[w] = reply.args.session_id
    /\ manager.active_connections # EmptyDict
    /\ \E t \in DOMAIN manager.twin_subscribers : manager.twin_subscribers[t] # {}

\* C19: when an unsubscribe frame for a twin has been handled, the session is
\* not among the subscribers of the twin.
C19_Unsubscribe ==
    reply.op = "unsubscribe"
    => \A t \in DOMAIN manager.twin_subscribers :
          t = reply.args.twin_id => reply.args.session_id \notin manager.twin_subscribers[t]

\* C20: no two tickets of the same node_id and title, both open or
\* acknowledged, were created less than 24 hours apart.
C20_NoDuplicateTickets ==
    \A i \in DOMAIN tickets, j \in DOMAIN tickets :
        (/\ i < j
         /\ tickets[i].node_id = tickets[j].node_id
         /\ tickets[i].title = tickets[j].title
         /\ tickets[i].status \in {"open", "acknowledged"}
         /\ tickets[j].status \in {"open", "acknowledged"})
        => tickets[j].created_at - tickets[i].created_at >= DedupWindow

\* The tickets of (node_id, title) that are open or acknowledged and were created
\* less than 24 hours ago.
LiveTickets(node_id, title) ==
    {i \in DOMAIN tickets :
        /\ tickets[i].node_id = node_id
        /\ tickets[i].title = title
        /\ tickets[i].status \in {"open", "acknowledged"}
        /\ agent_now - tickets[i].created_at < DedupWindow}

\* Worker w begins a call create_maintenance_ticket(node_id, ., title, ...) in
\* this step: the call is suspended at its INSERT afterwards, or has returned.
TicketCallBegins(w, node_id, title) ==
    /\ worker[w] = WorkerIdle
    /\ \/ /\ worker'[w].pc = "insert"
          /\ worker'[w].node_id = node_id
          /\ worker'[w].title = title
       \/ /\ agent_log'.msg = "Duplicate ticket suppressed"
          /\ agent_log'.caller = w
          /\ agent_log'.node_id = node_id
          /\ agent_log'.title = title

\* C21: a call of create_maintenance_ticket for a (node_id, title) that has an
\* open or acknowledged ticket created less than 24 hours ago returns without
\* an INSERT: the table is left as it was and the call logs the suppression.
C21_DuplicateSuppressed ==
    [][\A w \in Workers, n \in Nodes, title \in Titles :
          (LiveTickets(n, title) # {} /\ TicketCallBegins(w, n, title))
          => /\ tickets' = tickets
             /\ worker'[w] = WorkerIdle
             /\ agent_log'.msg = "Duplicate ticket suppressed"]_vars

\* A second call was suppressed and its (node_id, title) has one ticket, which
\* the dispatcher has acknowledged meanwhile.
C21_Witness ==
    /\ agent_log.msg = "Duplicate ticket suppressed"
    /\ Cardinality(LiveTickets(agent_log.node_id, agent_log.title)) = 1
    /\ \A i \in LiveTickets(agent_log.node_id, agent_log.title) :
          tickets[i].status = "acknowledged"

\* C22: outside the dispatcher's step from send_alert to the UPDATE of a ticket,
\* no ticket is open after its alert was sent, and none is acknowledged without
\* an alert (and without its acknowledged_at).
C22_AlertAtomic ==
    \A i \in DOMAIN tickets :
        ~(/\ loop["alert_dispatcher_loop"].pc = "update"
          /\ Head(loop["alert_dispatcher_loop"].batch) = i)
        => /\ i \in alerts => tickets[i].status # "open"
           /\ tickets[i].status = "acknowledged"
              => i \in alerts /\ tickets[i].acknowledged_at # Null

\* C24: an exception raised inside an iteration of one of the four loops is
\* caught there: the loop goes to its sleep, begins its next iteration after
\* the sleep while the agent is running, and its coroutine ends only from its
\* sleep with the agent stopped.
C24_LoopsSurvive ==
    [][\A l \in Loops :
          /\ (agent_log'.msg = "Error in loop" /\ agent_log'.loop = l
              /\ loop'[l] # loop[l])
             => loop'[l].pc = "sleep"
          /\ (loop[l].pc = "sleep" /\ running /\ loop'[l] # loop[l])
             => loop'[l].pc = "try"
          /\ (loop[l].pc # "returned" /\ loop'[l].pc = "returned")
             => loop[l].pc = "sleep" /\ ~running]_vars

\* A loop has caught an exception and is at its sleep, the agent running and the
\* other loops in their iterations.
C24_Witness ==
    /\ running
    /\ agent_log.msg = "Error in loop"
    /\ \A l \in Loops : loop[l].pc \in {"try", "update"} \/ agent_log.loop = l
    /\ loop[agent_log.loop].pc = "sleep"

\* C23: the task of cleanup_stale_locks is running, whatever its iterations met.
C23_ReaperSurvives ==
    tasks["cleanup_stale_locks"] = "running"

\* The counter of user u in vector clock vc (0 where vc has no entry for u).
ClockOf(vc, u) == IF u \in DOMAIN vc THEN vc[u] ELSE 0

\* Vector clock a is before b: no counter larger, one smaller.
ClockBefore(a, b) ==
    /\ \A u \in Procs : ClockOf(a, u) <= ClockOf(b, u)
    /\ \E u \in Procs : ClockOf(a, u) < ClockOf(b, u)

\* C25: of two stored operations of a twin, the one whose vector clock is before
\* the other's was inserted first.
C25_LinearExtension ==
    \A i \in DOMAIN edit_operations, j \in DOMAIN edit_operations :
        (/\ edit_operations[i].twin_id = edit_operations[j].twin_id
         /\ ClockBefore(edit_operations[i].vector_clock, edit_operations[j].vector_clock))
        => i < j

\* The largest of a non-empty set of numbers.
MaxOf(S) == CHOOSE x \in S : \A y \in S : y <= x

\* The high-watermark of user u on a twin before operation id was stored.
Watermark(twin_id, id, u) ==
    MaxOf({0} \cup {ClockOf(edit_operations[i].vector_clock, u) :
                      i \in {k \in 1..(id - 1) : edit_operations[k].twin_id = twin_id}})

\* C30: the vector clock stored with an operation holds, for each user, the
\* larger of the caller's counter and the twin's high-watermark.
C30_ClockMerged ==
    reply.op = "edit" /\ reply.ret.kind = "operation"
    => \A u \in Procs :
          ClockOf(edit_operations[reply.args.operation_id].vector_clock, u)
            = MaxOf({ClockOf(IF reply.args.vector_clock = RetNone THEN EmptyDict
                             ELSE reply.args.vector_clock, u),
                     Watermark(reply.args.twin_id, reply.args.operation_id, u)})

\* C28: after a heartbeat of an active lock that holds its twin's Redis record,
\* the time the record has left is the ttl the lock was acquired with.
C28_HeartbeatResetsTTL ==
    (/\ reply.op = "heartbeat"
     /\ reply.args.lock_id \in DOMAIN sql
     /\ sql[reply.args.lock_id].is_active
     /\ kv[sql[reply.args.lock_id].twin_id].lock_id = reply.args.lock_id)
    => kv[sql[reply.args.lock_id].twin_id].ttl_until - now \in Timeouts

\* Lock l is an orphan on twin t: Redis holds its record, edit_locks has no row
\* of it and no INSERT of it is pending.
Orphan(l, t) ==
    /\ kv[t].lock_id = l
    /\ l \notin DOMAIN sql
    /\ \A p \in Procs : ~(pc[p] = "acq_insert" /\ call[p].lock_id = l)

\* C29: the Redis record of an acquire whose INSERT failed goes away without
\* anybody releasing it.
C29_OrphanReconciled ==
    \A l \in LockIds : \A t \in Twins : Orphan(l, t) ~> (kv[t].lock_id # l)

\* An acquire has succeeded on the twin and components of an earlier acquire
\* whose INSERT failed.
C29_Witness ==
    /\ reply.op = "acquire"
    /\ reply.ret.kind = "lock"
    /\ \E l \in LockIds :
          /\ l < reply.ret.lock_id
          /\ l \notin DOMAIN sql
          /\ \A p \in Procs : ~(pc[p] = "acq_insert" /\ call[p].lock_id = l)
    /\ reply.args.components = Paths

\* The rows of twin_versions of twin t.
VersionsOf(t) == {i \in DOMAIN twin_versions : twin_versions[i].twin_id = t}

\* C26: with no call in flight, every twin has one version marked is_latest, and
\* the version numbers of its versions grow in the order they were created.
C26_VersionsConsistent ==
    Quiet =>
      \A t \in digital_twins :
          /\ Cardinality({i \in VersionsOf(t) : twin_versions[i].is_latest}) = 1
          /\ \A i \in VersionsOf(t), j \in VersionsOf(t) :
                i < j => twin_versions[i].version_number < twin_versions[j].version_number

\* Node n was assessed from telemetry that is zero in vibration, temperature
\* and tool wear, zero days after its maintenance.
AllZero(n) ==
    /\ n \in DOMAIN node_health_cache
    /\ node_health_cache[n].status = "online"
    /\ node_health_cache[n].vibration_level = 0
    /\ node_health_cache[n].temperature = 0
    /\ node_health_cache[n].tool_wear = 0
    /\ node_health_cache[n].last_maintenance_days = 0

\* C27, as stated: the health score for all-zero inputs is about 55 (between 50
\* and 60).
C27_AllZeroIs55 ==
    \A n \in Nodes :
        AllZero(n) => /\ node_health_cache[n].health_score >= 50 * ScoreScale
                      /\ node_health_cache[n].health_score <= 60 * ScoreScale

\* C27, amended: the health score for all-zero inputs is 100, the best score.
C27_AllZeroIs100 ==
    \A n \in Nodes :
        AllZero(n) => node_health_cache[n].health_score = 100 * ScoreScale

\* A node was assessed from all-zero inputs.
C27_Witness ==
    \E n \in Nodes : AllZero(n)

\* C31: a session whose connection failed a ping of heartbeat_monitor is, some
\* time later, no longer attached.
C31_FailedPingDetaches ==
    \A s \in Sessions :
        (/\ reply.op = "ping"
         /\ ~reply.ok
         /\ reply.session_id = s
         /\ s \in DOMAIN manager.active_connections)
        ~> (s \notin DOMAIN manager.active_connections)

\* C32: the recommendation is decided by the first rule that matches the health
\* used (tool wear >= 80, vibration critical, temperature critical, else
\* routine), with its cost and downtime; urgency is 24 h for a critical ticket
\* and 168 h for any other.
C32_RecommendationRules ==
    recommend # NoRecommendation =>
      LET h == recommend.health
          r == recommend.recommendation
          wear == h.tool_wear >= 80
          vib == h.vibration_level >= VIBRATION_CRITICAL
          temp == h.temperature >= TEMPERATURE_CRITICAL
          Is(action, parts, cost, downtime) ==
              /\ r.recommended_action = action
              /\ r.parts_needed = parts
              /\ r.estimated_cost = cost
              /\ r.estimated_downtime_hours = downtime
      IN  /\ wear => Is("Replace cutting tool immediately",
                        <<"Cutting Tool Assembly">>, 450, 20)
          /\ (~wear /\ vib) => Is("Inspect and replace bearings",
                                  <<"Front Bearing Set", "Rear Bearing Set">>, 1200, 80)
          /\ (~wear /\ ~vib /\ temp)
             => Is("Check cooling system, replace thermal compound",
                   <<"Thermal Compound", "Coolant">>, 150, 30)
          /\ (~wear /\ ~vib /\ ~temp)
             => Is("Perform routine inspection and lubrication",
                   <<"Lubricant", "Filter Kit">>, 80, 15)
          /\ r.urgency_hours = 24 <=> tickets[recommend.ticket_id].severity = "critical"
          /\ r.urgency_hours \in {24, 168}

\* A recommendation for a ticket that is not critical, from a health that
\* matches all three rules, the first of them at its threshold.
C32_Witness ==
    /\ recommend # NoRecommendation
    /\ recommend.health.tool_wear = 80
    /\ recommend.health.vibration_level >= VIBRATION_CRITICAL
    /\ recommend.health.temperature >= TEMPERATURE_CRITICAL
    /\ recommend.recommendation.severity = "high"

\* C33: a node assessed with no known last maintenance date gets
\* last_maintenance_days = 9999, with telemetry or without.
C33_UnknownMaintenanceIs9999 ==
    (reply.op = "assess_node_health" /\ reply.last_maintenance = RetNone)
    => node_health_cache[reply.node_id].last_maintenance_days = UnknownMaintenanceDays

\* C34: a release of a lock that is no longer active (released, run out or
\* reaped) changes nothing in Redis when the twin's record is that of a lock
\* which is active.
C34_StaleReleaseKeepsHolder ==
    [][\A p \in Procs :
        LET c == StartedCall(p) IN
        (/\ c.op = "release"
         /\ c.lock_id \in DOMAIN sql
         /\ ~Active(c.lock_id)
         /\ \E l \in DOMAIN sql :
               /\ l # c.lock_id
               /\ Active(l)
               /\ kv[sql[c.lock_id].twin_id].lock_id = l)
        => kv' = kv]_vars

\* C35: a release asked for by another user than Holder, who took every lock,
\* leaves an active lock as it is, in Redis and in edit_locks, in all its steps.
C35_ReleaseByOwnerOnly ==
    [][\A p \in Procs \ {Holder} :
        /\ LET c == StartedCall(p) IN
           (c.op = "release" /\ Active(c.lock_id)) => (kv' = kv /\ sql' = sql)
        /\ (pc[p] = "rel_update" /\ pc'[p] = "idle") => sql' = sql]_vars

\* C36: when the handler of one connection of a session disconnects while
\* another connection of the same session is open and is the one registered for
\* the session, the session stays registered with that connection and keeps its
\* subscriptions.
C36_OtherConnectionStays ==
    [][\A w \in Conns, o \in Conns :
        (/\ w # o
         /\ session_of[w] = session_of[o]
         /\ reply'.op = "disconnect"
         /\ reply'.caller = w
         /\ ws[o].st \in {"open", "cast"}
         /\ ws'[o] = ws[o]
         /\ session_of[o] \in DOMAIN manager.active_connections
         /\ manager.active_connections[session_of[o]] = o)
        => /\ session_of[o] \in DOMAIN manager'.active_connections
           /\ manager'.active_connections[session_of[o]] = o
           /\ \A t \in DOMAIN manager.twin_subscribers :
                 session_of[o] \in manager.twin_subscribers[t]
                 => session_of[o] \in manager'.twin_subscribers[t]]_vars

\* C37: every session id in a twin's subscriber set or in a user's session set
\* is attached: it is a key of active_connections.
C37_IndicesConsistent ==
    /\ \A t \in DOMAIN manager.twin_subscribers :
          manager.twin_subscribers[t] \subseteq DOMAIN manager.active_connections
    /\ \A u \in DOMAIN manager.user_sessions :
          manager.user_sessions[u] \subseteq DOMAIN manager.active_connections

\* C38: a ticket becomes acknowledged only from open.
C38_AcknowledgeOnlyOpen ==
    [][\A i \in DOMAIN tickets :
          (tickets'[i].status = "acknowledged" /\ tickets[i].status # "acknowledged")
          => tickets[i].status = "open"]_vars

\* C39: once stop() has set running to False, every one of the four loops
\* returns (and with them the gather of start()).
C39_StopEndsLoops ==
    (~running /\ \E l \in Loops : loop[l] # LoopNew)
    ~> (\A l \in Loops : loop[l].pc = "returned")

\* The agent was stopped while the dispatcher awaited an UPDATE, and all four
\* loops have returned.
C39_Witness ==
    /\ ~running
    /\ \A l \in Loops : loop[l].pc = "returned"
    /\ alerts # {}
    /\ \E i \in alerts : tickets[i].status = "open"

====
